---- MODULE Spec2Model ----
(***************************************************************************)
(* Model of the palapa_fun_rooms program (programs/solana-playground):     *)
(* one room, keyed by (ROOM_CREATOR, room_seed), its vault, and the four   *)
(* instructions create_room, join_room, announce_winner and cancel_room.   *)
(* An instruction that returns Err commits nothing: the accounts keep the  *)
(* values they had before the instruction, and only `result` records the   *)
(* error.                                                                  *)
(***************************************************************************)
EXTENDS Integers, Sequences, FiniteSets, TLC

\* ---- bounds ----
\* width of the unsigned lamport word (u64 in the source, scaled down)
WordBits == 20
\* largest rent-exempt minimum the Rent sysvar may report for a 0-byte account
MaxRent == 2
\* timestamps Clock::get() may report inside a handler
MaxTime == 2
\* lamports every wallet other than the service wallet starts with
InitialLamports == 12000

U64_MAX == 2^WordBits - 1

\* ---- program constants ----
CREATOR_FEE_BASIS_POINTS == 500
SERVICE_FEE_BASIS_POINTS == 300
BASIS_POINTS_DENOMINATOR == 10000
MAX_ROOM_SEED_LEN == 32
MAX_PLAYERS_ALLOWED == 100
SERVICE_WALLET_PUBKEY == "service"

\* ---- the accounts of the model ----
ROOM_CREATOR == "creator"
Wallets == {"creator", "p1", "p2", "service"}
VAULT == "vault"
None == "None"
\* Option<i64>: no timestamp, and the timestamp t
NoTimestamp == <<>>
SomeTimestamp(t) == <<t>>

\* inputs of create_room
SeedLens == {0, 1, MAX_ROOM_SEED_LEN, MAX_ROOM_SEED_LEN + 1}
MaxPlayersInputs == {1, 2, 3, MAX_PLAYERS_ALLOWED, MAX_PLAYERS_ALLOWED + 1}
EntryFees == {0, 33, 1000, 5000}
Times == 1..MaxTime
\* inputs of announce_winner and cancel_room: the signer, and the accounts
\* passed for the winner and the service fee recipient
Callers == {ROOM_CREATOR, "p1"}
WinnerAccounts(winner_pubkey) == {winner_pubkey, ROOM_CREATOR}
ServiceRecipients == {SERVICE_WALLET_PUBKEY, "p1"}

VARIABLES
    room_exists,   \* the room_data account has been initialised
    room_data,     \* the RoomData record
    lamports,      \* balance of every wallet and of the room vault
    rent,          \* Rent::minimum_balance(0), fixed for the behaviour
    payout,        \* amounts computed by the last successful announce_winner
    result,        \* instruction last executed and what it returned
    race           \* JoinRoom transactions sent for the last free slot

vars == <<room_exists, room_data, lamports, rent, payout, result, race>>

RoomStatus == {"Created", "OpenForJoining", "InProgress", "Finished", "Cancelled"}

\* contents of the account before `init`
ZeroedRoom ==
    [creator |-> None, room_seed_len |-> 0, status |-> "Created", winner |-> None,
     max_players |-> 0, entry_fee |-> 0, players |-> <<>>,
     creation_timestamp |-> 0, end_timestamp |-> NoTimestamp]

NoPayout == [prize |-> 0, creator_fee |-> 0, service_fee |-> 0,
             winner_share |-> 0, winner_total |-> 0, paid |-> FALSE]

\* the wallets that send racing JoinRoom transactions
Racers == {"p1", "p2"}

\* no transaction in flight; `observed` is the room the senders looked at
NoRace == [observed |-> ZeroedRoom, calls |-> [p \in Racers |-> "none"]]

Contains(seq, x) == \E i \in 1..Len(seq) : seq[i] = x

\* ---- checked u64 arithmetic: Overflow stands for the None of checked_* ----
Overflow == -1
\* variant: the product saturates at u64::MAX instead of being rejected
checked_mul_Saturating(a, b) ==
    IF a = Overflow THEN Overflow ELSE IF a * b > U64_MAX THEN U64_MAX ELSE a * b

checked_mul(a, b) == IF a = Overflow \/ a * b > U64_MAX THEN Overflow ELSE a * b
checked_div(a, b) == IF a = Overflow \/ b = 0 THEN Overflow ELSE a \div b
checked_add(a, b) == IF a = Overflow \/ b = Overflow \/ a + b > U64_MAX THEN Overflow ELSE a + b
checked_sub(a, b) == IF a = Overflow \/ b = Overflow \/ a < b THEN Overflow ELSE a - b

\* ---- system program transfer ----
TransferOk(l, from, to, amount) ==
    /\ l[from] >= amount
    /\ l[to] + amount <= U64_MAX
Transfer(l, from, to, amount) ==
    [l EXCEPT ![from] = @ - amount, ![to] = @ + amount]

Init ==
    /\ room_exists = FALSE
    /\ room_data = ZeroedRoom
    /\ rent \in {0, MaxRent}
    /\ lamports = [a \in Wallets \cup {VAULT} |->
                      IF a \in {VAULT, SERVICE_WALLET_PUBKEY} THEN 0
                      ELSE InitialLamports]
    /\ payout = NoPayout
    /\ result = [op |-> "none", err |-> "Ok"]
    /\ race = NoRace

Fail(op, err) ==
    /\ result' = [op |-> op, err |-> err]
    /\ UNCHANGED <<room_exists, room_data, lamports, rent, payout>>

\* ---- create_room ----
\* The CreateRoom accounts: room_data and room_vault are initialised (payer =
\* creator, space = 0 for the vault, which receives the rent-exempt minimum);
\* an account that already exists cannot be initialised again.
CreateRoomAccounts ==
    IF room_exists THEN "AccountAlreadyInUse"
    ELSE IF ~TransferOk(lamports, ROOM_CREATOR, VAULT, rent) THEN "InsufficientFunds"
    ELSE "Ok"

\* variant: max_players is not checked against MAX_PLAYERS_ALLOWED
CreateRoomError_NoPlayerLimit(room_seed_len, max_players) ==
    IF CreateRoomAccounts # "Ok" THEN CreateRoomAccounts
    ELSE IF ~(max_players > 1) THEN "InvalidMaxPlayers"
    ELSE IF ~(room_seed_len # 0 /\ room_seed_len <= MAX_ROOM_SEED_LEN) THEN "InvalidRoomSeed"
    ELSE "Ok"

\* the account checks, then the handler's validation of its arguments
CreateRoomError(room_seed_len, max_players) ==
    IF CreateRoomAccounts # "Ok" THEN CreateRoomAccounts
    ELSE IF ~(max_players > 1) THEN "InvalidMaxPlayers"
    ELSE IF ~(room_seed_len # 0 /\ room_seed_len <= MAX_ROOM_SEED_LEN) THEN "InvalidRoomSeed"
    ELSE IF ~(max_players <= MAX_PLAYERS_ALLOWED) THEN "MaxPlayersExceedsLimit"
    ELSE "Ok"

NewRoom(room_seed_len, max_players, entry_fee, now) ==
    [creator |-> ROOM_CREATOR, room_seed_len |-> room_seed_len,
     status |-> "OpenForJoining", winner |-> None,
     max_players |-> max_players, entry_fee |-> entry_fee, players |-> <<>>,
     creation_timestamp |-> now, end_timestamp |-> NoTimestamp]

create_room(room_seed_len, max_players, entry_fee) ==
    LET err == CreateRoomError(room_seed_len, max_players) IN
    IF err # "Ok" THEN Fail("create_room", err)
    ELSE /\ room_exists' = TRUE
         /\ \E now \in Times :
               room_data' = NewRoom(room_seed_len, max_players, entry_fee, now)
         /\ lamports' = Transfer(lamports, ROOM_CREATOR, VAULT, rent)
         /\ result' = [op |-> "create_room", err |-> "Ok"]
         /\ UNCHANGED <<rent, payout>>

\* ---- join_room ----
\* The JoinRoom accounts: room_data must be an initialised RoomData account.
JoinRoomAccounts == IF ~room_exists THEN "AccountNotInitialized" ELSE "Ok"

\* variant: a transaction sent for the last slot is validated against the
\* room its sender looked at, not against the account as it is now
JoinRoomError_ValidatesObservedRoom(player) ==
    LET seen == IF player \in Racers /\ race.calls[player] = "pending"
                THEN race.observed ELSE room_data
    IN
    IF JoinRoomAccounts # "Ok" THEN JoinRoomAccounts
    ELSE IF ~(seen.status = "OpenForJoining") THEN "RoomNotJoinable"
    ELSE IF ~(Len(seen.players) < seen.max_players) THEN "RoomFull"
    ELSE IF Contains(seen.players, player) THEN "PlayerAlreadyJoined"
    ELSE IF room_data.entry_fee > 0
            /\ ~TransferOk(lamports, player, VAULT, room_data.entry_fee)
         THEN "InsufficientFunds"
    ELSE "Ok"

\* variant: a player already in the roster is not rejected
JoinRoomError_NoDuplicateCheck(player) ==
    IF JoinRoomAccounts # "Ok" THEN JoinRoomAccounts
    ELSE IF ~(room_data.status = "OpenForJoining") THEN "RoomNotJoinable"
    ELSE IF ~(Len(room_data.players) < room_data.max_players) THEN "RoomFull"
    ELSE IF room_data.entry_fee > 0
            /\ ~TransferOk(lamports, player, VAULT, room_data.entry_fee)
         THEN "InsufficientFunds"
    ELSE "Ok"

\* variant: the status is not required to be OpenForJoining
JoinRoomError_NoStatusCheck(player) ==
    IF JoinRoomAccounts # "Ok" THEN JoinRoomAccounts
    ELSE IF ~(Len(room_data.players) < room_data.max_players) THEN "RoomFull"
    ELSE IF Contains(room_data.players, player) THEN "PlayerAlreadyJoined"
    ELSE IF room_data.entry_fee > 0
            /\ ~TransferOk(lamports, player, VAULT, room_data.entry_fee)
         THEN "InsufficientFunds"
    ELSE "Ok"

JoinRoomError(player) ==
    IF JoinRoomAccounts # "Ok" THEN JoinRoomAccounts
    ELSE IF ~(room_data.status = "OpenForJoining") THEN "RoomNotJoinable"
    ELSE IF ~(Len(room_data.players) < room_data.max_players) THEN "RoomFull"
    ELSE IF Contains(room_data.players, player) THEN "PlayerAlreadyJoined"
    ELSE IF room_data.entry_fee > 0
            /\ ~TransferOk(lamports, player, VAULT, room_data.entry_fee)
         THEN "InsufficientFunds"
    ELSE "Ok"

JoinedPlayers(player) == Append(room_data.players, player)

\* variant: the room is started by its first player
JoinedStatus_StartedByFirstJoin(players) ==
    IF Len(players) >= 1 THEN "InProgress" ELSE room_data.status

\* variant: a full room is left OpenForJoining
JoinedStatus_NeverStarted(players) == room_data.status

JoinedStatus(players) ==
    IF Len(players) = room_data.max_players THEN "InProgress" ELSE room_data.status

\* variant: the entry fee is not moved to the vault
JoinedLamports_FeeNotTransferred(player) == lamports

JoinedLamports(player) ==
    IF room_data.entry_fee > 0
    THEN Transfer(lamports, player, VAULT, room_data.entry_fee)
    ELSE lamports

join_room(player) ==
    LET err == JoinRoomError(player) IN
    IF err # "Ok" THEN Fail("join_room", err)
    ELSE /\ lamports' = JoinedLamports(player)
         /\ room_data' = [room_data EXCEPT !.players = JoinedPlayers(player),
                                           !.status = JoinedStatus(JoinedPlayers(player))]
         /\ result' = [op |-> "join_room", err |-> "Ok"]
         /\ UNCHANGED <<room_exists, rent, payout>>

\* ---- announce_winner ----
\* variant: service_fee_recipient is not compared with SERVICE_WALLET_PUBKEY
AnnounceWinnerAccounts_AnyServiceWallet(caller, winner_pubkey, winner_account, service_fee_recipient) ==
    IF ~room_exists THEN "AccountNotInitialized"
    ELSE IF caller # ROOM_CREATOR THEN "ConstraintSeeds"
    ELSE IF room_data.creator # caller THEN "Unauthorized"
    ELSE IF winner_account # winner_pubkey THEN "WinnerAccountMismatch"
    ELSE "Ok"

\* The AnnounceWinner accounts: room_data and room_vault are the addresses
\* derived from the signer's key and the seed, room_data.creator is the signer,
\* winner_account is winner_pubkey and service_fee_recipient is the fixed wallet.
AnnounceWinnerAccounts(caller, winner_pubkey, winner_account, service_fee_recipient) ==
    IF ~room_exists THEN "AccountNotInitialized"
    ELSE IF caller # ROOM_CREATOR THEN "ConstraintSeeds"
    ELSE IF room_data.creator # caller THEN "Unauthorized"
    ELSE IF winner_account # winner_pubkey THEN "WinnerAccountMismatch"
    ELSE IF service_fee_recipient # SERVICE_WALLET_PUBKEY THEN "InvalidServiceWallet"
    ELSE "Ok"

\* variant: the declared winner is not required to be in players
AnnounceWinnerError_NoWinnerCheck(caller, winner_pubkey, winner_account, service_fee_recipient) ==
    IF AnnounceWinnerAccounts(caller, winner_pubkey, winner_account,
                              service_fee_recipient) # "Ok"
    THEN AnnounceWinnerAccounts(caller, winner_pubkey, winner_account,
                                service_fee_recipient)
    ELSE IF ~(room_data.status = "InProgress") THEN "RoomNotInProgress"
    ELSE "Ok"

\* variant: the status is not required to be InProgress
AnnounceWinnerError_NoStatusCheck(caller, winner_pubkey, winner_account, service_fee_recipient) ==
    IF AnnounceWinnerAccounts(caller, winner_pubkey, winner_account,
                              service_fee_recipient) # "Ok"
    THEN AnnounceWinnerAccounts(caller, winner_pubkey, winner_account,
                                service_fee_recipient)
    ELSE IF ~Contains(room_data.players, winner_pubkey) THEN "WinnerNotInRoom"
    ELSE "Ok"

\* the account checks, then the two require!s of the handler
AnnounceWinnerError(caller, winner_pubkey, winner_account, service_fee_recipient) ==
    IF AnnounceWinnerAccounts(caller, winner_pubkey, winner_account,
                              service_fee_recipient) # "Ok"
    THEN AnnounceWinnerAccounts(caller, winner_pubkey, winner_account,
                                service_fee_recipient)
    ELSE IF ~(room_data.status = "InProgress") THEN "RoomNotInProgress"
    ELSE IF ~Contains(room_data.players, winner_pubkey) THEN "WinnerNotInRoom"
    ELSE "Ok"

total_prize_amount(vault_lamports) ==
    IF checked_sub(vault_lamports, rent) = Overflow THEN 0
    ELSE checked_sub(vault_lamports, rent)

creator_fee(prize) ==
    checked_div(checked_mul(prize, CREATOR_FEE_BASIS_POINTS), BASIS_POINTS_DENOMINATOR)

\* variant: the service fee is rounded up instead of down
service_fee_RoundedUp(prize) ==
    checked_div(checked_add(checked_mul(prize, SERVICE_FEE_BASIS_POINTS),
                            BASIS_POINTS_DENOMINATOR - 1),
                BASIS_POINTS_DENOMINATOR)

service_fee(prize) ==
    checked_div(checked_mul(prize, SERVICE_FEE_BASIS_POINTS), BASIS_POINTS_DENOMINATOR)

fees_total(prize) == checked_add(creator_fee(prize), service_fee(prize))

\* variant: the service fee is not deducted from the winner's share
winner_share_prize_CreatorFeeOnly(prize) == checked_sub(prize, creator_fee(prize))

winner_share_prize(prize) == checked_sub(prize, fees_total(prize))

winner_total_receive(prize) == checked_add(winner_share_prize(prize), rent)

\* one system_program::transfer out of the vault, made only if amount > 0;
\* st carries the error so far and the balances
PayFromVault(st, to, amount) ==
    IF st.err # "Ok" \/ ~(amount > 0) THEN st
    ELSE IF ~TransferOk(st.lamports, VAULT, to, amount)
         THEN [st EXCEPT !.err = "TransferFailed"]
    ELSE [st EXCEPT !.lamports = Transfer(st.lamports, VAULT, to, amount)]

\* variant: the creator and service fee transfers go to each other's account
PayPrize_SwappedRecipients(l, prize, creator, service_fee_recipient, winner_account) ==
    IF \/ creator_fee(prize) = Overflow
       \/ service_fee(prize) = Overflow
       \/ fees_total(prize) = Overflow
       \/ winner_share_prize(prize) = Overflow
       \/ winner_total_receive(prize) = Overflow
    THEN [err |-> "CalculationOverflow", lamports |-> l]
    ELSE PayFromVault(
           PayFromVault(
             PayFromVault([err |-> "Ok", lamports |-> l],
                          service_fee_recipient, creator_fee(prize)),
             creator, service_fee(prize)),
           winner_account, winner_total_receive(prize))

\* the branch taken when total_prize_amount > 0
PayPrize(l, prize, creator, service_fee_recipient, winner_account) ==
    IF \/ creator_fee(prize) = Overflow
       \/ service_fee(prize) = Overflow
       \/ fees_total(prize) = Overflow
       \/ winner_share_prize(prize) = Overflow
       \/ winner_total_receive(prize) = Overflow
    THEN [err |-> "CalculationOverflow", lamports |-> l]
    ELSE PayFromVault(
           PayFromVault(
             PayFromVault([err |-> "Ok", lamports |-> l], creator, creator_fee(prize)),
             service_fee_recipient, service_fee(prize)),
           winner_account, winner_total_receive(prize))

\* variant: the remaining balance is left in the vault
PayRemaining_NoTransfer(l, winner_account) == [err |-> "Ok", lamports |-> l]

\* the branch taken when total_prize_amount = 0
PayRemaining(l, winner_account) ==
    PayFromVault([err |-> "Ok", lamports |-> l], winner_account, l[VAULT])

VaultEmptyCheck(st) ==
    IF st.err # "Ok" THEN st
    ELSE IF ~(st.lamports[VAULT] = 0) THEN [st EXCEPT !.err = "VaultNotEmptyAfterPayout"]
    ELSE st

Settle(l, creator, service_fee_recipient, winner_account) ==
    LET prize == total_prize_amount(l[VAULT]) IN
    VaultEmptyCheck(IF prize > 0
                    THEN PayPrize(l, prize, creator, service_fee_recipient, winner_account)
                    ELSE PayRemaining(l, winner_account))

LoggedPayout(prize) ==
    IF prize > 0
    THEN [prize |-> prize, creator_fee |-> creator_fee(prize),
          service_fee |-> service_fee(prize),
          winner_share |-> winner_share_prize(prize),
          winner_total |-> winner_total_receive(prize), paid |-> TRUE]
    ELSE [prize |-> 0, creator_fee |-> 0, service_fee |-> 0, winner_share |-> 0,
          winner_total |-> lamports[VAULT], paid |-> TRUE]

AnnouncedRoom(winner_pubkey, now) ==
    [room_data EXCEPT !.winner = winner_pubkey,
                      !.status = "Finished",
                      !.end_timestamp = SomeTimestamp(now)]

announce_winner(caller, winner_pubkey, winner_account, service_fee_recipient) ==
    LET err == AnnounceWinnerError(caller, winner_pubkey, winner_account,
                                   service_fee_recipient)
        st  == Settle(lamports, caller, service_fee_recipient, winner_account)
    IN
    IF err # "Ok" THEN Fail("announce_winner", err)
    ELSE IF st.err # "Ok" THEN Fail("announce_winner", st.err)
    ELSE /\ \E now \in Times : room_data' = AnnouncedRoom(winner_pubkey, now)
         /\ lamports' = st.lamports
         /\ payout' = LoggedPayout(total_prize_amount(lamports[VAULT]))
         /\ result' = [op |-> "announce_winner", err |-> "Ok"]
         /\ UNCHANGED <<room_exists, rent>>

\* ---- cancel_room ----
\* The CancelRoom accounts: room_data and room_vault are the addresses derived
\* from the signer's key and the seed, and room_data.creator is the signer.
CancelRoomAccounts(caller) ==
    IF ~room_exists THEN "AccountNotInitialized"
    ELSE IF caller # ROOM_CREATOR THEN "ConstraintSeeds"
    ELSE IF room_data.creator # caller THEN "Unauthorized"
    ELSE "Ok"

\* variant: a room with players may be cancelled
CancelRoomError_NoPlayersCheck(caller) ==
    IF CancelRoomAccounts(caller) # "Ok" THEN CancelRoomAccounts(caller)
    ELSE IF ~(room_data.status = "OpenForJoining" \/ room_data.status = "Created")
         THEN "CannotCancelRoomState"
    ELSE "Ok"

\* variant: the status is not required to be OpenForJoining or Created
CancelRoomError_NoStatusCheck(caller) ==
    IF CancelRoomAccounts(caller) # "Ok" THEN CancelRoomAccounts(caller)
    ELSE IF ~(Len(room_data.players) = 0) THEN "CannotCancelRoomPlayersJoined"
    ELSE "Ok"

CancelRoomError(caller) ==
    IF CancelRoomAccounts(caller) # "Ok" THEN CancelRoomAccounts(caller)
    ELSE IF ~(room_data.status = "OpenForJoining" \/ room_data.status = "Created")
         THEN "CannotCancelRoomState"
    ELSE IF ~(Len(room_data.players) = 0) THEN "CannotCancelRoomPlayersJoined"
    ELSE "Ok"

\* variant: only the balance above the rent-exempt minimum is refunded
Refund_KeepsRent(l, creator) ==
    IF l[VAULT] > rent
    THEN PayFromVault([err |-> "Ok", lamports |-> l], creator, l[VAULT] - rent)
    ELSE [err |-> "Ok", lamports |-> l]

\* the refund: the whole vault balance to the creator, checked only when a
\* transfer was made
Refund(l, creator) ==
    IF l[VAULT] > 0
    THEN VaultEmptyCheck(PayFromVault([err |-> "Ok", lamports |-> l], creator, l[VAULT]))
    ELSE [err |-> "Ok", lamports |-> l]

\* variant: the end time is not recorded on cancellation
CancelledRoom_NoEndTimestamp(now) == [room_data EXCEPT !.status = "Cancelled"]

CancelledRoom(now) ==
    [room_data EXCEPT !.status = "Cancelled", !.end_timestamp = SomeTimestamp(now)]

cancel_room(caller) ==
    LET err == CancelRoomError(caller)
        st  == Refund(lamports, caller)
    IN
    IF err # "Ok" THEN Fail("cancel_room", err)
    ELSE IF st.err # "Ok" THEN Fail("cancel_room", st.err)
    ELSE /\ \E now \in Times : room_data' = CancelledRoom(now)
         /\ lamports' = st.lamports
         /\ result' = [op |-> "cancel_room", err |-> "Ok"]
         /\ UNCHANGED <<room_exists, rent, payout>>

\* ---- the program ----
CreateRoom ==
    /\ \E room_seed_len \in SeedLens, max_players \in MaxPlayersInputs,
          entry_fee \in EntryFees :
           create_room(room_seed_len, max_players, entry_fee)
    /\ UNCHANGED race

JoinRoom ==
    /\ \E player \in Wallets : join_room(player)
    /\ UNCHANGED race

AnnounceWinner ==
    /\ \E caller \in Callers, winner_pubkey \in Wallets,
          service_fee_recipient \in ServiceRecipients :
          \E winner_account \in WinnerAccounts(winner_pubkey) :
             announce_winner(caller, winner_pubkey, winner_account,
                             service_fee_recipient)
    /\ UNCHANGED race

CancelRoom ==
    /\ \E caller \in Callers : cancel_room(caller)
    /\ UNCHANGED race

Next == CreateRoom \/ JoinRoom \/ AnnounceWinner \/ CancelRoom

Spec == Init /\ [][Next]_vars

\* ---- concurrent callers ----
\* A wallet sends a JoinRoom transaction after looking at a room with one free
\* slot. The transactions write room_data, so the ledger executes them one at
\* a time, in any order, interleaved with every other instruction; each
\* execution is the join_room handler run on the room_data account as it is
\* then.
SubmitJoin(player) ==
    /\ room_exists
    /\ room_data.status = "OpenForJoining"
    /\ Len(room_data.players) = room_data.max_players - 1
    /\ ~Contains(room_data.players, player)
    /\ race.calls[player] = "none"
    /\ race' = [observed |-> room_data,
                calls |-> [race.calls EXCEPT ![player] = "pending"]]
    /\ UNCHANGED <<room_exists, room_data, lamports, rent, payout, result>>

ExecuteJoin(player) ==
    /\ race.calls[player] = "pending"
    /\ join_room(player)
    /\ race' = [race EXCEPT !.calls[player] = result'.err]

SubmitJoinRoom == \E player \in Racers : SubmitJoin(player)

ExecuteJoinRoom == \E player \in Racers : ExecuteJoin(player)

NextRace ==
    \/ CreateRoom \/ JoinRoom \/ AnnounceWinner \/ CancelRoom
    \/ SubmitJoinRoom \/ ExecuteJoinRoom

SpecRace == Init /\ [][NextRace]_vars

TypeOK ==
    /\ room_exists \in BOOLEAN
    /\ room_data.status \in RoomStatus
    /\ \A a \in Wallets \cup {VAULT} : lamports[a] \in 0..U64_MAX
    /\ rent \in 0..MaxRent

\* ---- properties ----
Terminal == {"Finished", "Cancelled"}

NoDuplicates(seq) == \A i, j \in 1..Len(seq) : i # j => seq[i] # seq[j]

\* the amounts of section 4.2, written out with unbounded integers
FloorBps(prize, bps) == (prize * bps) \div BASIS_POINTS_DENOMINATOR

\* C1: settlement conservation. Whenever a room is InProgress with
\* prize_pool = vault balance - rent > 0 and the computation does not overflow,
\* creator_fee + service_fee + winner_share = prize_pool, and the amounts of
\* every settlement that succeeded add up to its prize pool.
C1_SettlementConservation ==
    /\ (room_exists /\ room_data.status = "InProgress") =>
          LET prize == total_prize_amount(lamports[VAULT]) IN
          (prize > 0 /\ winner_total_receive(prize) # Overflow) =>
             /\ prize = lamports[VAULT] - rent
             /\ creator_fee(prize) + service_fee(prize) + winner_share_prize(prize) = prize
    /\ (payout.paid /\ payout.prize > 0) =>
          payout.creator_fee + payout.service_fee + payout.winner_share = payout.prize

\* a settlement with a prize pool that does not divide evenly has succeeded
C1_Witness ==
    /\ room_data.status = "Finished"
    /\ payout.paid /\ payout.prize > 0 /\ payout.creator_fee > 0
    /\ payout.creator_fee * BASIS_POINTS_DENOMINATOR # payout.prize * CREATOR_FEE_BASIS_POINTS

\* C2 as stated: after a successful AnnounceWinner or CancelRoom the vault
\* holds exactly the baseline (rent-exempt minimum).
C2_VaultAtBaselineAfterTerminal ==
    (room_exists /\ room_data.status \in Terminal) => lamports[VAULT] = rent

\* C2 amended: after a successful AnnounceWinner or CancelRoom the vault
\* holds exactly 0 lamports; the baseline is paid out with the rest.
C2_VaultEmptyAfterTerminal ==
    (room_exists /\ room_data.status \in Terminal) => lamports[VAULT] = 0

\* a room with a non-zero baseline has been cancelled
C2_Witness ==
    /\ room_exists /\ room_data.status = "Cancelled" /\ rent > 0
    /\ result = [op |-> "cancel_room", err |-> "Ok"]

\* C3: a successful AnnounceWinner with prize_pool > 0 credits creator_fee to
\* the creator, service_fee to the service wallet and winner_share + baseline
\* to the winner, credits nobody else, and leaves the vault at exactly 0.
C3_SettlementPayments ==
    [][(room_data.status = "InProgress" /\ room_data'.status = "Finished"
        /\ lamports[VAULT] - rent > 0) =>
          LET prize == lamports[VAULT] - rent
              cf == FloorBps(prize, CREATOR_FEE_BASIS_POINTS)
              sf == FloorBps(prize, SERVICE_FEE_BASIS_POINTS)
              ws == prize - cf - sf
          IN /\ payout'.winner_total = ws + rent
             /\ payout'.creator_fee = cf /\ payout'.service_fee = sf
             /\ \A a \in Wallets :
                   lamports'[a] = lamports[a]
                      + (IF a = room_data.creator THEN cf ELSE 0)
                      + (IF a = SERVICE_WALLET_PUBKEY THEN sf ELSE 0)
                      + (IF a = room_data'.winner THEN ws + rent ELSE 0)
             /\ lamports'[VAULT] = 0
             /\ result' = [op |-> "announce_winner", err |-> "Ok"]]_vars

\* a settlement that paid all three recipients has succeeded
C3_Witness ==
    /\ room_data.status = "Finished" /\ rent > 0
    /\ payout.creator_fee > 0 /\ payout.service_fee > 0
    /\ payout.winner_total = payout.winner_share + rent
    /\ room_data.winner \notin {room_data.creator, SERVICE_WALLET_PUBKEY}
    /\ lamports[VAULT] = 0

\* C4: the status changes only along the lifecycle graph, and each change is
\* made by the operation the graph names.
C4_StatusGraph ==
    [][/\ (~room_exists /\ room_exists') =>
             /\ room_data'.status = "OpenForJoining"
             /\ result' = [op |-> "create_room", err |-> "Ok"]
       /\ room_exists => room_exists'
       /\ (room_exists /\ room_data'.status # room_data.status) =>
             \/ /\ room_data.status = "OpenForJoining"
                /\ room_data'.status = "InProgress"
                /\ result' = [op |-> "join_room", err |-> "Ok"]
             \/ /\ room_data.status = "InProgress"
                /\ room_data'.status = "Finished"
                /\ result' = [op |-> "announce_winner", err |-> "Ok"]
             \/ /\ room_data.status \in {"Created", "OpenForJoining"}
                /\ room_data'.status = "Cancelled"
                /\ result' = [op |-> "cancel_room", err |-> "Ok"]
       /\ (result' = [op |-> "join_room", err |-> "Ok"]) =>
             /\ room_data.status = "OpenForJoining"
             /\ room_data'.status \in {"OpenForJoining", "InProgress"}
       /\ (result' = [op |-> "announce_winner", err |-> "Ok"] /\ room_data' # room_data) =>
             room_data.status = "InProgress" /\ room_data'.status = "Finished"
       /\ (result' = [op |-> "cancel_room", err |-> "Ok"] /\ room_data' # room_data) =>
             room_data'.status = "Cancelled"]_vars

\* a room has gone through OpenForJoining and InProgress to Finished
C4_Witness ==
    /\ room_exists /\ room_data.status = "Finished"
    /\ Len(room_data.players) = room_data.max_players

\* C5: once the room is Finished or Cancelled no step changes the room record
\* or any balance, and a later JoinRoom, AnnounceWinner or CancelRoom fails.
C5_TerminalAbsorbing ==
    [][(room_exists /\ room_data.status \in Terminal) =>
          /\ room_data' = room_data
          /\ lamports' = lamports
          /\ payout' = payout
          /\ result'.err # "Ok"]_vars

\* a CancelRoom and an AnnounceWinner were attempted on a terminal room
C5_Witness ==
    /\ room_exists /\ room_data.status = "Cancelled"
    /\ result = [op |-> "cancel_room", err |-> "CannotCancelRoomState"]

\* C6: the roster only grows, by one appended player per successful JoinRoom;
\* it never exceeds max_players and never holds a duplicate; the join that
\* fills it sets the status to InProgress, and no JoinRoom succeeds on a full
\* roster.
C6_Roster ==
    /\ [](room_exists =>
            /\ Len(room_data.players) <= room_data.max_players
            /\ NoDuplicates(room_data.players)
            /\ (Len(room_data.players) = room_data.max_players
                  => room_data.status \in {"InProgress", "Finished"}))
    /\ [][/\ (room_data'.players # room_data.players) =>
                /\ \E p \in Wallets : room_data'.players = Append(room_data.players, p)
                /\ result' = [op |-> "join_room", err |-> "Ok"]
          /\ (room_exists /\ Len(room_data.players) < room_data.max_players
                /\ Len(room_data'.players) = room_data.max_players)
                => room_data'.status = "InProgress"
          /\ (room_exists /\ Len(room_data.players) = room_data.max_players) =>
                /\ room_data'.players = room_data.players
                /\ (result'.op = "join_room" => result'.err # "Ok")]_vars

\* a JoinRoom was attempted on a full roster and rejected
C6_Witness ==
    /\ room_exists /\ Len(room_data.players) = room_data.max_players
    /\ room_data.status = "InProgress"
    /\ result = [op |-> "join_room", err |-> "RoomNotJoinable"]

\* C7: an AnnounceWinner succeeds only if the status is InProgress, the caller
\* is the room's creator and the declared winner is in players; every other
\* AnnounceWinner fails and changes neither the room record nor a balance, and
\* the creator's call on an OpenForJoining room fails with RoomNotInProgress.
C7_AnnounceWinnerGuards ==
    [][(result'.op = "announce_winner") =>
        \A caller \in Callers, winner_pubkey \in Wallets,
           service_fee_recipient \in ServiceRecipients :
          \A winner_account \in WinnerAccounts(winner_pubkey) :
            announce_winner(caller, winner_pubkey, winner_account,
                            service_fee_recipient) =>
              LET allowed == /\ room_exists
                             /\ room_data.status = "InProgress"
                             /\ caller = room_data.creator
                             /\ Contains(room_data.players, winner_pubkey)
              IN /\ result'.err = "Ok" => allowed
                 /\ ~allowed =>
                       /\ result'.err # "Ok"
                       /\ room_data' = room_data
                       /\ lamports' = lamports
                 /\ (/\ room_exists
                     /\ room_data.status = "OpenForJoining"
                     /\ caller = room_data.creator
                     /\ winner_account = winner_pubkey
                     /\ service_fee_recipient = SERVICE_WALLET_PUBKEY)
                       => result'.err = "RoomNotInProgress"]_vars

\* the creator tried to announce a winner while the room was still filling
C7_Witness ==
    /\ room_exists /\ room_data.status = "OpenForJoining"
    /\ Len(room_data.players) > 0
    /\ room_data.winner = None /\ room_data.end_timestamp = NoTimestamp
    /\ result = [op |-> "announce_winner", err |-> "RoomNotInProgress"]

\* C8: a CancelRoom succeeds only if the status is Created or OpenForJoining,
\* the caller is the creator and players is empty; every other CancelRoom
\* fails and changes neither the room record nor a balance, and the creator's
\* call on an OpenForJoining room with players fails with
\* CannotCancelRoomPlayersJoined.
C8_CancelRoomGuards ==
    [][(result'.op = "cancel_room") =>
        \A caller \in Callers :
            cancel_room(caller) =>
              LET allowed == /\ room_exists
                             /\ room_data.status \in {"Created", "OpenForJoining"}
                             /\ caller = room_data.creator
                             /\ Len(room_data.players) = 0
              IN /\ result'.err = "Ok" => allowed
                 /\ ~allowed =>
                       /\ result'.err # "Ok"
                       /\ room_data' = room_data
                       /\ lamports' = lamports
                 /\ (/\ room_exists
                     /\ room_data.status = "OpenForJoining"
                     /\ caller = room_data.creator
                     /\ Len(room_data.players) > 0)
                       => result'.err = "CannotCancelRoomPlayersJoined"]_vars

\* the creator tried to cancel a room that a player had joined
C8_Witness ==
    /\ room_exists /\ room_data.status = "OpenForJoining"
    /\ Len(room_data.players) = 1 /\ room_data.end_timestamp = NoTimestamp
    /\ result = [op |-> "cancel_room", err |-> "CannotCancelRoomPlayersJoined"]

\* C9: a JoinRoom by a player already in players, on a room that is not
\* OpenForJoining, or by a player who cannot cover a non-zero entry_fee fails
\* and changes neither the room record nor any balance.
C9_FailedJoinNoEffect ==
    [][(result'.op = "join_room") =>
        \A player \in Wallets :
            (/\ join_room(player)
             /\ \/ ~room_exists
                \/ Contains(room_data.players, player)
                \/ room_data.status # "OpenForJoining"
                \/ lamports[player] < room_data.entry_fee) =>
                  /\ result'.err # "Ok"
                  /\ room_data' = room_data
                  /\ lamports' = lamports]_vars

\* a player who could not cover the entry fee was rejected
C9_Witness ==
    /\ room_exists /\ room_data.status = "OpenForJoining"
    /\ lamports[SERVICE_WALLET_PUBKEY] < room_data.entry_fee
    /\ ~Contains(room_data.players, SERVICE_WALLET_PUBKEY)
    /\ result = [op |-> "join_room", err |-> "InsufficientFunds"]

\* C10: while the room is neither Finished nor Cancelled the vault holds
\* rent + entry_fee * len(players); a step that lowers the vault balance is a
\* successful AnnounceWinner or CancelRoom; and a CancelRoom refunds exactly
\* the baseline to the creator.
C10_VaultBalance ==
    /\ []((room_exists /\ room_data.status \notin Terminal) =>
            lamports[VAULT] = rent + room_data.entry_fee * Len(room_data.players))
    /\ [][/\ (lamports'[VAULT] < lamports[VAULT]) =>
                /\ result'.op \in {"announce_winner", "cancel_room"}
                /\ result'.err = "Ok"
                /\ room_data'.status \in Terminal
          /\ (room_data.status # "Cancelled" /\ room_data'.status = "Cancelled") =>
                /\ lamports[VAULT] = rent
                /\ lamports'[room_data.creator] = lamports[room_data.creator] + rent]_vars

\* entry fees have accumulated in the vault of a room still filling
C10_Witness ==
    /\ room_exists /\ room_data.status = "OpenForJoining"
    /\ room_data.entry_fee > 0 /\ Len(room_data.players) = 2 /\ rent > 0
    /\ lamports[VAULT] = rent + 2 * room_data.entry_fee

\* C11: for every prize pool > 0 that settles, creator_fee is
\* floor(prize * 500 / 10000) and service_fee is floor(prize * 300 / 10000);
\* so creator_fee <= 5%, service_fee <= 3%, both together <= 8% of the prize
\* pool, and the winner's share is at least prize - floor(prize * 800 / 10000).
C11_FeeFloors ==
    /\ (room_exists /\ room_data.status = "InProgress") =>
          LET prize == total_prize_amount(lamports[VAULT]) IN
          (prize > 0 /\ winner_total_receive(prize) # Overflow) =>
             /\ creator_fee(prize) = FloorBps(prize, CREATOR_FEE_BASIS_POINTS)
             /\ service_fee(prize) = FloorBps(prize, SERVICE_FEE_BASIS_POINTS)
             /\ winner_share_prize(prize) >=
                   prize - FloorBps(prize, CREATOR_FEE_BASIS_POINTS
                                           + SERVICE_FEE_BASIS_POINTS)
    /\ (payout.paid /\ payout.prize > 0) =>
          /\ payout.creator_fee = FloorBps(payout.prize, CREATOR_FEE_BASIS_POINTS)
          /\ payout.service_fee = FloorBps(payout.prize, SERVICE_FEE_BASIS_POINTS)
          /\ payout.creator_fee * 100 <= payout.prize * 5
          /\ payout.service_fee * 100 <= payout.prize * 3
          /\ (payout.creator_fee + payout.service_fee) * 100 <= payout.prize * 8
          /\ payout.winner_share >=
                payout.prize - FloorBps(payout.prize, CREATOR_FEE_BASIS_POINTS
                                                      + SERVICE_FEE_BASIS_POINTS)
          /\ (payout.prize = 2000 =>
                /\ payout.creator_fee = 100
                /\ payout.service_fee = 60
                /\ payout.winner_share = 1840)

\* scenario A has settled: two players at entry_fee 1000, prize pool 2000
C11_Witness ==
    /\ room_data.status = "Finished" /\ room_data.entry_fee = 1000
    /\ payout.paid /\ payout.prize = 2000
    /\ payout.creator_fee = 100 /\ payout.service_fee = 60
    /\ payout.winner_share = 1840 /\ payout.winner_total = 1840 + rent

\* C12: when a full room has prize_pool = 0, the creator's AnnounceWinner for
\* any member succeeds, charges no fee, and transfers the whole vault balance,
\* which is exactly the baseline, to the winner and to nobody else; with an
\* empty vault it succeeds without any transfer.
C12_ZeroPrizeSettlement ==
    [][(result'.op = "announce_winner") =>
        \A winner_pubkey \in Wallets :
            (/\ room_exists
             /\ room_data.status = "InProgress"
             /\ lamports[VAULT] - rent <= 0
             /\ Contains(room_data.players, winner_pubkey)
             /\ announce_winner(room_data.creator, winner_pubkey, winner_pubkey,
                                SERVICE_WALLET_PUBKEY)) =>
               /\ result'.err = "Ok"
               /\ room_data'.status = "Finished"
               /\ room_data'.winner = winner_pubkey
               /\ lamports[VAULT] = rent
               /\ payout'.creator_fee = 0 /\ payout'.service_fee = 0
               /\ payout'.winner_total = lamports[VAULT]
               /\ \A a \in Wallets :
                     lamports'[a] = lamports[a]
                        + (IF a = winner_pubkey THEN lamports[VAULT] ELSE 0)
               /\ lamports'[VAULT] = 0
               /\ (lamports[VAULT] = 0 => lamports' = lamports)]_vars

\* a free room has been settled: the winner received the baseline, no fee
C12_Witness ==
    /\ room_exists /\ room_data.status = "Finished" /\ room_data.entry_fee = 0
    /\ rent > 0 /\ payout.paid /\ payout.prize = 0
    /\ payout.creator_fee = 0 /\ payout.service_fee = 0
    /\ payout.winner_total = rent
    /\ lamports[SERVICE_WALLET_PUBKEY] = 0
    /\ lamports[VAULT] = 0

\* C13: when a step of the fee or payout computation exceeds the u64 domain
\* (prize * 500 > u64::MAX, ...), the creator's otherwise valid AnnounceWinner
\* fails with CalculationOverflow and commits nothing: status stays
\* InProgress, winner and end_timestamp stay unset, no balance changes.
C13_OverflowRejected ==
    [][(result'.op = "announce_winner") =>
        \A winner_pubkey \in Wallets :
            (/\ room_exists
             /\ room_data.status = "InProgress"
             /\ Contains(room_data.players, winner_pubkey)
             /\ LET prize == lamports[VAULT] - rent IN
                /\ prize > 0
                /\ \/ prize * CREATOR_FEE_BASIS_POINTS > U64_MAX
                   \/ prize * SERVICE_FEE_BASIS_POINTS > U64_MAX
                   \/ prize - FloorBps(prize, CREATOR_FEE_BASIS_POINTS)
                            - FloorBps(prize, SERVICE_FEE_BASIS_POINTS) + rent > U64_MAX
             /\ announce_winner(room_data.creator, winner_pubkey, winner_pubkey,
                                SERVICE_WALLET_PUBKEY)) =>
               /\ result'.err = "CalculationOverflow"
               /\ room_data' = room_data
               /\ room_data'.status = "InProgress"
               /\ room_data'.winner = None
               /\ room_data'.end_timestamp = NoTimestamp
               /\ lamports' = lamports
               /\ payout' = payout]_vars

\* a settlement was rejected because prize * 500 does not fit the word
C13_Witness ==
    /\ room_exists /\ room_data.status = "InProgress"
    /\ (lamports[VAULT] - rent) * CREATOR_FEE_BASIS_POINTS > U64_MAX
    /\ room_data.winner = None /\ room_data.end_timestamp = NoTimestamp
    /\ result = [op |-> "announce_winner", err |-> "CalculationOverflow"]

\* C14: a CreateRoom for a room that does not exist yet succeeds exactly when
\* 2 <= max_players <= 100 and 1 <= len(room_seed) <= 32, whatever the
\* entry_fee; a successful one yields status OpenForJoining, empty players,
\* no winner, no end_timestamp and a vault holding exactly the baseline; a
\* failed one creates nothing.
C14_CreateRoom ==
    [][(result'.op = "create_room" /\ ~room_exists) =>
        \A room_seed_len \in SeedLens, max_players \in MaxPlayersInputs,
           entry_fee \in EntryFees :
            create_room(room_seed_len, max_players, entry_fee) =>
               LET valid == /\ 2 <= max_players /\ max_players <= 100
                            /\ 1 <= room_seed_len /\ room_seed_len <= 32
               IN /\ (result'.err = "Ok") <=> valid
                  /\ valid =>
                        /\ room_exists'
                        /\ room_data'.status = "OpenForJoining"
                        /\ room_data'.players = <<>>
                        /\ room_data'.winner = None
                        /\ room_data'.end_timestamp = NoTimestamp
                        /\ room_data'.max_players = max_players
                        /\ room_data'.entry_fee = entry_fee
                        /\ room_data'.room_seed_len = room_seed_len
                        /\ room_data'.creator = ROOM_CREATOR
                        /\ lamports'[VAULT] = rent
                  /\ ~valid =>
                        /\ ~room_exists'
                        /\ room_data' = room_data
                        /\ lamports' = lamports]_vars

\* a room at both upper limits has just been created
C14_Witness ==
    /\ room_exists /\ result = [op |-> "create_room", err |-> "Ok"]
    /\ room_data.max_players = MAX_PLAYERS_ALLOWED
    /\ room_data.room_seed_len = MAX_ROOM_SEED_LEN
    /\ room_data.status = "OpenForJoining" /\ room_data.players = <<>>
    /\ room_data.winner = None /\ room_data.end_timestamp = NoTimestamp
    /\ rent > 0 /\ lamports[VAULT] = rent

\* C16: a winner is set only in a Finished room, a set winner is a member of
\* players, the winner is set by a successful AnnounceWinner only, and once
\* set it never changes.
C16_Winner ==
    /\ [](room_data.winner # None =>
            /\ room_exists
            /\ room_data.status = "Finished"
            /\ Contains(room_data.players, room_data.winner))
    /\ [][/\ (room_data.winner # None) => room_data'.winner = room_data.winner
          /\ (room_data'.winner # room_data.winner) =>
                /\ room_data.status = "InProgress"
                /\ result' = [op |-> "announce_winner", err |-> "Ok"]]_vars

\* the winner is still recorded after a later operation on the Finished room
C16_Witness ==
    /\ room_exists /\ room_data.status = "Finished"
    /\ room_data.winner # None
    /\ Contains(room_data.players, room_data.winner)
    /\ result = [op |-> "announce_winner", err |-> "RoomNotInProgress"]

\* C17: end_timestamp is set if and only if the status is Finished or
\* Cancelled, and once set it never changes.
C17_EndTimestamp ==
    /\ []((room_data.end_timestamp # NoTimestamp) <=>
             (room_exists /\ room_data.status \in Terminal))
    /\ [][(room_data.end_timestamp # NoTimestamp) =>
             room_data'.end_timestamp = room_data.end_timestamp]_vars

\* a Finished room keeps its end_timestamp through a later operation
C17_Witness ==
    /\ room_exists /\ room_data.status = "Finished"
    /\ \E t \in Times : room_data.end_timestamp = SomeTimestamp(t)
    /\ result = [op |-> "cancel_room", err |-> "CannotCancelRoomState"]

\* C18 as stated: every InProgress room can be settled: the creator's
\* AnnounceWinner for any member of players, with the right accounts, is
\* accepted and its settlement returns no error.
C18_InProgressCanSettle ==
    (room_exists /\ room_data.status = "InProgress") =>
        \A winner_pubkey \in Wallets :
            Contains(room_data.players, winner_pubkey) =>
               /\ AnnounceWinnerError(room_data.creator, winner_pubkey, winner_pubkey,
                                      SERVICE_WALLET_PUBKEY) = "Ok"
               /\ Settle(lamports, room_data.creator, SERVICE_WALLET_PUBKEY,
                         winner_pubkey).err = "Ok"

\* C19: while a room has at least one player but fewer than max_players,
\* every AnnounceWinner and every CancelRoom fails and no step lowers the
\* vault balance; the only step that changes the room is a JoinRoom.
C19_PartlyFilledRoomLocked ==
    [][(/\ room_exists
        /\ Len(room_data.players) >= 1
        /\ Len(room_data.players) < room_data.max_players) =>
          /\ (result'.op \in {"announce_winner", "cancel_room"}) => result'.err # "Ok"
          /\ lamports'[VAULT] >= lamports[VAULT]
          /\ (room_data' # room_data) => result' = [op |-> "join_room", err |-> "Ok"]
          /\ \A caller \in Callers, winner_pubkey \in Wallets,
                service_fee_recipient \in ServiceRecipients :
               \A winner_account \in WinnerAccounts(winner_pubkey) :
                  AnnounceWinnerError(caller, winner_pubkey, winner_account,
                                      service_fee_recipient) # "Ok"
          /\ \A caller \in Callers : CancelRoomError(caller) # "Ok"]_vars

\* the creator could not settle a paid room that is one player short
C19_Witness ==
    /\ room_exists /\ room_data.status = "OpenForJoining"
    /\ room_data.max_players = 3 /\ Len(room_data.players) = 2
    /\ room_data.entry_fee > 0
    /\ lamports[VAULT] = rent + 2 * room_data.entry_fee
    /\ result = [op |-> "announce_winner", err |-> "RoomNotInProgress"]

\* C20: status and roster are coupled: OpenForJoining implies
\* len(players) < max_players, InProgress and Finished imply
\* len(players) = max_players, Cancelled implies no players, Created never
\* occurs; so a JoinRoom on a full room is rejected with RoomNotJoinable and
\* RoomFull is never returned.
C20_StatusRosterCoupling ==
    /\ room_exists =>
          /\ room_data.status = "OpenForJoining"
                => Len(room_data.players) < room_data.max_players
          /\ room_data.status \in {"InProgress", "Finished"}
                => Len(room_data.players) = room_data.max_players
          /\ room_data.status = "Cancelled" => Len(room_data.players) = 0
          /\ room_data.status # "Created"
          /\ Len(room_data.players) = room_data.max_players
                => \A player \in Wallets : JoinRoomError(player) = "RoomNotJoinable"
    /\ result.err # "RoomFull"

\* a JoinRoom on a full, settled room was rejected by the status check
C20_Witness ==
    /\ room_exists /\ room_data.status = "Finished"
    /\ Len(room_data.players) = room_data.max_players
    /\ result = [op |-> "join_room", err |-> "RoomNotJoinable"]

\* C15: of the JoinRoom transactions sent for the last free slot of a room,
\* executed in any order and interleaved with any other instruction, at most
\* one succeeds; the roster never exceeds max_players; a transaction that
\* loses the slot fails because the room is full by then, and a failed one
\* takes no deposit.
C15_RacingJoins ==
    /\ [](/\ Cardinality({p \in Racers : race.calls[p] = "Ok"}) <= 1
          /\ room_exists => Len(room_data.players) <= room_data.max_players
          /\ \A p \in Racers :
                race.calls[p] \notin {"none", "pending", "Ok", "InsufficientFunds"} =>
                   /\ Len(room_data.players) = room_data.max_players
                   /\ room_data.status # "OpenForJoining")
    /\ [][\A p \in Racers :
            (race.calls[p] = "pending" /\ race'.calls[p] # "pending") =>
               IF race'.calls[p] = "Ok"
               THEN /\ room_data'.players = Append(room_data.players, p)
                    /\ room_data'.status = "InProgress"
                    /\ lamports'[VAULT] = lamports[VAULT] + room_data.entry_fee
               ELSE /\ room_data' = room_data
                    /\ lamports' = lamports]_vars

\* two transactions raced for the last slot of a paid room: one got it, the
\* other was rejected and kept its lamports
C15_Witness ==
    /\ room_exists /\ room_data.entry_fee > 0
    /\ race.calls["p1"] = "Ok"
    /\ race.calls["p2"] = "RoomNotJoinable"
    /\ Len(race.observed.players) = room_data.max_players - 1
    /\ Len(room_data.players) = room_data.max_players
    /\ ~Contains(room_data.players, "p2")
    /\ lamports["p2"] = InitialLamports

\* the lamports held by the wallets and the vault together
RECURSIVE SumOver(_, _)
SumOver(l, accounts) ==
    IF accounts = {} THEN 0
    ELSE LET a == CHOOSE x \in accounts : TRUE
         IN l[a] + SumOver(l, accounts \ {a})

TotalLamports(l) == SumOver(l, Wallets \cup {VAULT})

\* C21: every JoinRoom, AnnounceWinner and CancelRoom, successful or failed,
\* leaves the sum of all wallet balances and the vault balance unchanged;
\* lamports enter the vault only from the player of a successful JoinRoom, and
\* lamports leaving the vault are credited only to the creator, the fixed
\* service wallet or the declared winner, while no wallet is debited.
C21_FundsConserved ==
    [][(result'.op \in {"join_room", "announce_winner", "cancel_room"}) =>
          /\ TotalLamports(lamports') = TotalLamports(lamports)
          /\ (lamports'[VAULT] > lamports[VAULT]) =>
                /\ result' = [op |-> "join_room", err |-> "Ok"]
                /\ \E player \in Wallets :
                      /\ room_data'.players = Append(room_data.players, player)
                      /\ lamports' = [lamports EXCEPT
                            ![player] = @ - room_data.entry_fee,
                            ![VAULT] = @ + room_data.entry_fee]
          /\ (lamports'[VAULT] < lamports[VAULT]) =>
                /\ result'.op \in {"announce_winner", "cancel_room"}
                /\ result'.err = "Ok"
                /\ \A a \in Wallets :
                      /\ lamports'[a] >= lamports[a]
                      /\ (lamports'[a] > lamports[a]) =>
                            a \in {room_data.creator, SERVICE_WALLET_PUBKEY,
                                   room_data'.winner}
          /\ (lamports'[VAULT] = lamports[VAULT]) => lamports' = lamports]_vars

\* a paid room has been settled: all three recipients were credited and the
\* total is what the wallets started with
C21_Witness ==
    /\ room_exists /\ room_data.status = "Finished"
    /\ payout.paid /\ payout.creator_fee > 0 /\ payout.service_fee > 0
    /\ room_data.winner \notin {room_data.creator, SERVICE_WALLET_PUBKEY}
    /\ lamports[SERVICE_WALLET_PUBKEY] = payout.service_fee
    /\ lamports[VAULT] = 0
    /\ TotalLamports(lamports) = 3 * InitialLamports
====
